---- MODULE Spec2Model ----
(***************************************************************************)
(* Whisper dashboard front end: the plan entitlement resolver              *)
(* (PLAN_CONSTRAINTS, hasFeatureAccess, getRequiredPlan, usePlanAccess)    *)
(* and the streaming text-to-speech client (WebSocketTTSService).          *)
(*                                                                         *)
(* JavaScript values are tagged records: kind is what `typeof` and         *)
(* truthiness look at.  Plain objects inherit from Object.prototype, so    *)
(* the `in` operator also sees the inherited names.                        *)
(***************************************************************************)
EXTENDS Integers, Sequences, FiniteSets, Bags, TLC

VARIABLES
    \* ---- entitlement resolver: the inputs of a call and what it returned
    planType,       \* user.subscription.plan.type / the planType argument
    featurePath,    \* the featurePath string: name tokens separated by "."
    call,           \* which function has been applied ("none" before)
    accessRet,      \* value returned by hasFeatureAccess / canAccess
    planRet,        \* value returned by getRequiredPlan
    msgRet,         \* value returned by getUpgradePrompt
    \* ---- WebSocketTTSService (the singleton) and the browser around it
    ws,                 \* this.ws: "null", "live" (the socket marked cur) or
                        \* "closed" (an object whose close event is past)
    isConnected,        \* this.isConnected
    reconnectAttempts,  \* this.reconnectAttempts
    reconnectDelay,     \* this.reconnectDelay, in ms
    keepAliveInterval,  \* this.keepAliveInterval is set (the interval runs)
    socks,              \* the WebSocket objects that still have events to come
    timers,             \* how many timeouts of attemptReconnect are pending
    created,            \* how many WebSocket objects have been constructed
    last,               \* what the last handler did: events emitted, messages
                        \* sent, timers scheduled, promise settled, exception
    \* ---- SimpleStreamingAudioPlayer (one instance) on the singleton
    player,             \* its React state, and what its closures captured
    objectUrls,         \* the object URLs created and not revoked
    player2,            \* a second player component on the same page
    \* ---- AuthProvider
    auth                \* its state, local storage, the requests in flight

accessVars == <<planType, featurePath, call, accessRet, planRet, msgRet>>

wsVars == <<ws, isConnected, reconnectAttempts, reconnectDelay, keepAliveInterval,
            socks, timers, created, last>>

playerVars == <<player, objectUrls, player2>>

vars == <<accessVars, wsVars, playerVars, auth>>

----------------------------------------------------------------------------
(* JavaScript values *)

JSBool(b) == [kind |-> "boolean", val |-> b]
JSObj(p) == [kind |-> "object", props |-> p]
JSUndefined == [kind |-> "undefined"]
JSNull == [kind |-> "null"]
\* Object.prototype, and the function Object that is its `constructor`
ObjectPrototype == [kind |-> "prototype"]
ObjectFn == [kind |-> "function"]
\* a TypeError raised by an expression
JSThrow == [kind |-> "throw"]

\* names every plain object inherits from Object.prototype (those the
\* inputs below use)
InheritedNames == {"constructor", "__proto__"}

\* ToBoolean
Truthy(v) ==
    CASE v.kind = "boolean" -> v.val
      [] v.kind \in {"undefined", "null"} -> FALSE
      [] OTHER -> TRUE

\* typeof v === 'object'
TypeofObject(v) == v.kind \in {"object", "prototype", "null"}

\* whether `name in v` raises: the right operand must be an object
InThrows(v) == v.kind \notin {"object", "prototype", "function"}

\* name in v, for v an object
HasProperty(v, name) ==
    \/ v.kind = "object" /\ name \in DOMAIN v.props
    \/ v.kind \in {"object", "prototype", "function"} /\ name \in InheritedNames

\* v[name], for v an object
GetProperty(v, name) ==
    CASE v.kind = "object" /\ name \in DOMAIN v.props -> v.props[name]
      [] v.kind \in {"object", "function"} /\ name = "constructor" -> ObjectFn
      [] v.kind = "prototype" /\ name = "constructor" -> ObjectFn
      [] v.kind = "object" /\ name = "__proto__" -> ObjectPrototype
      [] v.kind = "function" /\ name = "__proto__" -> ObjectFn
      [] v.kind = "prototype" /\ name = "__proto__" -> JSNull
      [] OTHER -> JSUndefined

----------------------------------------------------------------------------
(* PLAN_CONSTRAINTS *)

T == JSBool(TRUE)
F == JSBool(FALSE)

FREE_PLAN == JSObj([
    dashboard |-> JSObj([
        home |-> T, my_channels |-> F, topics |-> F,
        saved |-> F, queues |-> F, youtube |-> F]),
    analysis |-> JSObj([
        ai_analysis |-> JSObj([
            executive_summary |-> T, summary_to_speech |-> F,
            detailed_analysis |-> T, key_insights |-> F,
            people_companies_mentioned |-> F, topic_analysis |-> F,
            tone_analysis |-> F]),
        transcript |-> T, time_range |-> F, q_and_a |-> F,
        translation |-> F]),
    features |-> JSObj([
        video_processing |-> T, basic_analysis |-> T,
        transcript_access |-> T, channel_following |-> F,
        youtube_search |-> F, time_range_summary |-> F,
        qa_features |-> F, translation |-> F, tts |-> F])])

BASIC_PLAN == JSObj([
    dashboard |-> JSObj([
        home |-> T, my_channels |-> T, topics |-> F,
        saved |-> F, queues |-> F, youtube |-> F]),
    analysis |-> JSObj([
        ai_analysis |-> JSObj([
            executive_summary |-> T, summary_to_speech |-> T,
            detailed_analysis |-> T, key_insights |-> T,
            people_companies_mentioned |-> T, topic_analysis |-> T,
            tone_analysis |-> F]),
        transcript |-> T, time_range |-> T, q_and_a |-> T,
        translation |-> F]),
    features |-> JSObj([
        video_processing |-> T, basic_analysis |-> T,
        transcript_access |-> T, channel_following |-> T,
        youtube_search |-> F, time_range_summary |-> T,
        qa_features |-> T, translation |-> F, tts |-> T])])

PREMIUM_PLAN == JSObj([
    dashboard |-> JSObj([
        home |-> T, my_channels |-> T, topics |-> T,
        saved |-> T, queues |-> T, youtube |-> T]),
    analysis |-> JSObj([
        ai_analysis |-> JSObj([
            executive_summary |-> T, summary_to_speech |-> T,
            detailed_analysis |-> T, key_insights |-> T,
            people_companies_mentioned |-> T, topic_analysis |-> T,
            tone_analysis |-> T]),
        transcript |-> T, time_range |-> T, q_and_a |-> T,
        translation |-> T]),
    features |-> JSObj([
        video_processing |-> T, basic_analysis |-> T,
        transcript_access |-> T, channel_following |-> T,
        youtube_search |-> T, time_range_summary |-> T,
        qa_features |-> T, translation |-> T, tts |-> T])])

\* mutants of the table: a flag switched off in a higher tier, a key left
\* out of one tier
PREMIUM_PLAN_TtsOff ==
    JSObj([PREMIUM_PLAN.props EXCEPT
        !.features = JSObj([PREMIUM_PLAN.props.features.props EXCEPT !.tts = F])])

BASIC_PLAN_NoQueues ==
    JSObj([BASIC_PLAN.props EXCEPT
        !.dashboard = JSObj([k \in DOMAIN BASIC_PLAN.props.dashboard.props \ {"queues"}
                                |-> BASIC_PLAN.props.dashboard.props[k]])])

PLAN_CONSTRAINTS_TtsOff ==
    JSObj([free |-> FREE_PLAN, basic |-> BASIC_PLAN, premium |-> PREMIUM_PLAN_TtsOff])

PLAN_CONSTRAINTS_NoQueues ==
    JSObj([free |-> FREE_PLAN, basic |-> BASIC_PLAN_NoQueues, premium |-> PREMIUM_PLAN])

PLAN_CONSTRAINTS ==
    JSObj([free |-> FREE_PLAN, basic |-> BASIC_PLAN, premium |-> PREMIUM_PLAN])

\* Object.entries(PLAN_CONSTRAINTS): own string keys in insertion order
PlanEntries == <<"free", "basic", "premium">>

Tiers == {"free", "basic", "premium"}

----------------------------------------------------------------------------
(* Strings: a feature path is a sequence of tokens, a name or the "." *)

\* featurePath.split('.'): the segments between the dots; the empty string
\* splits to one empty segment
Split(str) ==
    LET RECURSIVE go(_, _, _)
        go(i, cur, acc) ==
            IF i > Len(str) THEN Append(acc, cur)
            ELSE IF str[i] = "." THEN go(i + 1, "", Append(acc, cur))
            ELSE go(i + 1, str[i], acc)
    IN go(1, "", <<>>)

\* segments.join('.')
Join(segs) ==
    LET RECURSIVE go(_)
        go(i) ==
            IF i > Len(segs) THEN <<>>
            ELSE (IF i > 1 THEN <<".">> ELSE <<>>)
                 \o (IF segs[i] = "" THEN <<>> ELSE <<segs[i]>>)
                 \o go(i + 1)
    IN go(1)

\* the characters of the tokens: the names of the table, the segments that
\* are no key of it, the dot
Spelling ==
    "dashboard" :> <<"d", "a", "s", "h", "b", "o", "a", "r", "d">> @@
    "home" :> <<"h", "o", "m", "e">> @@
    "my_channels" :> <<"m", "y", "_", "c", "h", "a", "n", "n", "e", "l", "s">> @@
    "topics" :> <<"t", "o", "p", "i", "c", "s">> @@
    "saved" :> <<"s", "a", "v", "e", "d">> @@
    "queues" :> <<"q", "u", "e", "u", "e", "s">> @@
    "youtube" :> <<"y", "o", "u", "t", "u", "b", "e">> @@
    "analysis" :> <<"a", "n", "a", "l", "y", "s", "i", "s">> @@
    "ai_analysis" :> <<"a", "i", "_", "a", "n", "a", "l", "y", "s", "i", "s">> @@
    "executive_summary" :> <<"e", "x", "e", "c", "u", "t", "i", "v", "e", "_", "s", "u", "m", "m", "a", "r", "y">> @@
    "summary_to_speech" :> <<"s", "u", "m", "m", "a", "r", "y", "_", "t", "o", "_", "s", "p", "e", "e", "c", "h">> @@
    "detailed_analysis" :> <<"d", "e", "t", "a", "i", "l", "e", "d", "_", "a", "n", "a", "l", "y", "s", "i", "s">> @@
    "key_insights" :> <<"k", "e", "y", "_", "i", "n", "s", "i", "g", "h", "t", "s">> @@
    "people_companies_mentioned" :> <<"p", "e", "o", "p", "l", "e", "_", "c", "o", "m", "p", "a", "n", "i", "e", "s", "_", "m", "e", "n", "t", "i", "o", "n", "e", "d">> @@
    "topic_analysis" :> <<"t", "o", "p", "i", "c", "_", "a", "n", "a", "l", "y", "s", "i", "s">> @@
    "tone_analysis" :> <<"t", "o", "n", "e", "_", "a", "n", "a", "l", "y", "s", "i", "s">> @@
    "transcript" :> <<"t", "r", "a", "n", "s", "c", "r", "i", "p", "t">> @@
    "time_range" :> <<"t", "i", "m", "e", "_", "r", "a", "n", "g", "e">> @@
    "q_and_a" :> <<"q", "_", "a", "n", "d", "_", "a">> @@
    "translation" :> <<"t", "r", "a", "n", "s", "l", "a", "t", "i", "o", "n">> @@
    "features" :> <<"f", "e", "a", "t", "u", "r", "e", "s">> @@
    "video_processing" :> <<"v", "i", "d", "e", "o", "_", "p", "r", "o", "c", "e", "s", "s", "i", "n", "g">> @@
    "basic_analysis" :> <<"b", "a", "s", "i", "c", "_", "a", "n", "a", "l", "y", "s", "i", "s">> @@
    "transcript_access" :> <<"t", "r", "a", "n", "s", "c", "r", "i", "p", "t", "_", "a", "c", "c", "e", "s", "s">> @@
    "channel_following" :> <<"c", "h", "a", "n", "n", "e", "l", "_", "f", "o", "l", "l", "o", "w", "i", "n", "g">> @@
    "youtube_search" :> <<"y", "o", "u", "t", "u", "b", "e", "_", "s", "e", "a", "r", "c", "h">> @@
    "time_range_summary" :> <<"t", "i", "m", "e", "_", "r", "a", "n", "g", "e", "_", "s", "u", "m", "m", "a", "r", "y">> @@
    "qa_features" :> <<"q", "a", "_", "f", "e", "a", "t", "u", "r", "e", "s">> @@
    "tts" :> <<"t", "t", "s">> @@
    "unknown" :> <<"u", "n", "k", "n", "o", "w", "n">> @@
    "constructor" :> <<"c", "o", "n", "s", "t", "r", "u", "c", "t", "o", "r">> @@
    "__proto__" :> <<"_", "_", "p", "r", "o", "t", "o", "_", "_">> @@
    "." :> <<".">>

\* the characters of a string given as a sequence of tokens
CharsOf(str) ==
    LET RECURSIVE go(_)
        go(i) == IF i > Len(str) THEN <<>> ELSE Spelling[str[i]] \o go(i + 1)
    IN go(1)

\* str.includes(name): the characters of name occur in str, at any offset
Includes(str, name) ==
    LET text == CharsOf(str)
        sub == Spelling[name]
    IN \E i \in 1..(Len(text) - Len(sub) + 1) :
           SubSeq(text, i, i + Len(sub) - 1) = sub

----------------------------------------------------------------------------
(* The resolver *)

\* getPlanConstraints
getPlanConstraints(pt) ==
    LET found == IF HasProperty(PLAN_CONSTRAINTS, pt)
                 THEN GetProperty(PLAN_CONSTRAINTS, pt) ELSE JSUndefined
    IN IF Truthy(found) THEN found ELSE PLAN_CONSTRAINTS.props.free

\* mutant: the loop tests `part in current` without the
\* `current && typeof current === 'object'` guard
hasFeatureAccess_NoGuard(pt, path) ==
    LET parts == Split(path)
        RECURSIVE walk(_, _)
        walk(i, current) ==
            IF i > Len(parts) THEN JSBool(Truthy(current))
            ELSE IF InThrows(current) THEN JSThrow
            ELSE IF HasProperty(current, parts[i])
                 THEN walk(i + 1, GetProperty(current, parts[i]))
            ELSE JSBool(FALSE)
    IN walk(1, getPlanConstraints(pt))

\* hasFeatureAccess
hasFeatureAccess(pt, path) ==
    LET parts == Split(path)
        RECURSIVE walk(_, _)
        walk(i, current) ==
            IF i > Len(parts) THEN JSBool(Truthy(current))
            ELSE IF Truthy(current) /\ TypeofObject(current)
                 THEN (IF InThrows(current) THEN JSThrow
                       ELSE IF HasProperty(current, parts[i])
                            THEN walk(i + 1, GetProperty(current, parts[i]))
                       ELSE JSBool(FALSE))
            ELSE JSBool(FALSE)
    IN walk(1, getPlanConstraints(pt))

\* whether a call of hasFeatureAccess returned true
Grants(pt, path) ==
    LET r == hasFeatureAccess(pt, path) IN r.kind = "boolean" /\ r.val

\* mutant: the tiers are tried from the highest down
getRequiredPlan_Descending(path) ==
    IF Grants("premium", path) THEN "premium"
    ELSE IF Grants("basic", path) THEN "basic"
    ELSE IF Grants("free", path) THEN "free"
    ELSE "premium"

\* getRequiredPlan
getRequiredPlan(path) ==
    LET RECURSIVE loop(_)
        loop(i) ==
            IF i > Len(PlanEntries) THEN "premium"
            ELSE IF Grants(PlanEntries[i], path) THEN PlanEntries[i]
            ELSE loop(i + 1)
    IN loop(1)

planNames == [free |-> "Free", basic |-> "Basic", premium |-> "Premium"]

\* getUpgradeMessage: the template literal, piece by piece
getUpgradeMessage(currentPlan, requiredPlan) ==
    << "This feature is available in ",
       IF requiredPlan \in DOMAIN planNames
       THEN planNames[requiredPlan] ELSE "undefined",
       " plan and above. Upgrade to unlock this feature." >>

\* usePlanAccess: user?.subscription?.plan?.type || 'free'
CurrentPlan(pt) == IF pt = "undefined" THEN "free" ELSE pt

canAccess(pt, path) == hasFeatureAccess(CurrentPlan(pt), path)

\* mutant: the prompt names the user's own plan
getUpgradePrompt_OwnPlan(pt, path) ==
    getUpgradeMessage(CurrentPlan(pt), CurrentPlan(pt))

getUpgradePrompt(pt, path) ==
    getUpgradeMessage(CurrentPlan(pt), getRequiredPlan(path))

\* mutant: every locked feature is shown as available in basic
LockedRequiredPlan_Basic(path) == "basic"

\* LockedFeature's own getRequiredPlan, for the badge
LockedRequiredPlan(path) ==
    IF \/ Includes(path, "youtube") \/ Includes(path, "topics")
       \/ Includes(path, "saved") \/ Includes(path, "queues")
    THEN "premium"
    ELSE IF \/ Includes(path, "my_channels") \/ Includes(path, "time_range")
            \/ Includes(path, "q_and_a")
    THEN "basic"
    ELSE IF Includes(path, "tone_analysis") THEN "premium"
    ELSE IF Includes(path, "translation") THEN "premium"
    ELSE "basic"

----------------------------------------------------------------------------
(* Inputs of the resolver *)

\* how many segments that are no key of the table a path may carry
MaxExtra == 2

\* a tier the table does not know, no subscription at all (undefined), and
\* two names every object inherits
PlanTypes == Tiers \cup {"gold", "undefined", "constructor", "__proto__"}

\* the empty segment, a name that is no key, and two inherited names
ExtraSegs == {"", "unknown", "constructor", "__proto__"}

\* the own-property paths of an object: the groups and the flags under it
RECURSIVE NodesOf(_)
NodesOf(v) ==
    IF v.kind # "object" THEN {<<>>}
    ELSE {<<>>} \cup UNION {{<<k>> \o p : p \in NodesOf(v.props[k])} : k \in DOMAIN v.props}

TableNodes == UNION {NodesOf(PLAN_CONSTRAINTS.props[t]) : t \in Tiers}

ExtraSeqs == UNION {[1..m -> ExtraSegs] : m \in 0..MaxExtra}

SegPaths == {n \o e : n \in TableNodes, e \in ExtraSeqs} \ {<<>>}

FeaturePaths == {Join(s) : s \in SegPaths}

\* the value the table of tier t holds at the own-property path segs
RECURSIVE OwnValue(_, _)
OwnValue(v, segs) ==
    IF segs = <<>> THEN v
    ELSE IF v.kind = "object" /\ Head(segs) \in DOMAIN v.props
         THEN OwnValue(v.props[Head(segs)], Tail(segs))
    ELSE JSUndefined

\* a defined feature flag: a leaf of the tier's table
IsFlag(t, segs) == OwnValue(PLAN_CONSTRAINTS.props[t], segs).kind = "boolean"

\* a path some tier defines as a flag
IsDefinedPath(segs) == \E t \in Tiers : IsFlag(t, segs)

TierRank == [free |-> 0, basic |-> 1, premium |-> 2]

----------------------------------------------------------------------------
(* WebSocketTTSService *)

\* how many WebSocket objects the client constructs in one run
MaxSockets == 6
\* how many of them have events still to come at one time
MaxLive == 2

\* how many in a run of connect() calls, retry timers and transport events
\* alone: one socket that opens, one that is lost, and more retries than
\* maxReconnectAttempts
MaxRetrySockets == 8

maxReconnectAttempts == 5
BaseDelay == 1000

\* A WebSocket object that still has events to come:
\*   st      connecting, open, closing (close() was called on it), or
\*           failed (its error event has been dispatched and its close
\*           event follows in the same task)
\*   opened  its open event has been handled
\*   by      who called the connect() that made it: "caller" (a player) or
\*           "timer" (attemptReconnect's timeout, whose catch doubles the
\*           delay when the promise is rejected)
\*   cur     this.ws is this object
\*   asked   a synthesis request has been sent on it: the server streams
\*           audio_chunk and final frames only on such a socket
\* The promise of its connect() is pending until it opens (resolved) or
\* its error event is handled (rejected).
Sock(st, opened, by, cur) ==
    [st |-> st, opened |-> opened, by |-> by, cur |-> cur, asked |-> FALSE]

Live == BagToSet(socks)

Put(bag, r) == bag (+) SetToBag({r})
Drop(bag, r) == bag (-) SetToBag({r})

\* the texts and voices a caller asks for
Texts == {"hello", "world"}
Voices == {"undefined", "v1"}

\* the close events a browser delivers: wasClean with the code of the close
\* frame, or an abnormal closure (1006)
CloseEvents == {[wasClean |-> TRUE, code |-> 1000],
                [wasClean |-> TRUE, code |-> 1001],
                [wasClean |-> FALSE, code |-> 1006]}
AbnormalClose == [wasClean |-> FALSE, code |-> 1006]

ConnectionFailed == "WebSocket connection failed"
ReconnectFailed == "Connection lost and reconnection failed. Please refresh the page."
NotConnected == "WebSocket not connected. Call connect() first."

Emit(event, data) == [event |-> event, data |-> data]
Ping == [type |-> "ping", text |-> "", voice_id |-> ""]
TtsMessage(text, voice) == [type |-> "undefined", text |-> text, voice_id |-> voice]

\* The text frames the server sends.  audio_base64 is base64 text: groups
\* of four characters, each standing for one to three bytes; text that is
\* no base64 makes atob raise.
Base64(groups) == [valid |-> TRUE, groups |-> groups]
NotBase64 == [valid |-> FALSE, groups |-> <<>>]

Frame(json, type, b64, size, message) ==
    [json |-> json, type |-> type, audio_base64 |-> b64,
     total_size |-> size, message |-> message]
NoFrame == Frame("none", "undefined", NotBase64, 0, "undefined")

\* the audio chunks a server streams, with the cumulative size it reports:
\* one of one byte, one of two bytes, one that is no base64
AudioFrames ==
    {Frame("object", "audio_chunk", Base64(<< <<7>> >>), 1, "undefined"),
     Frame("object", "audio_chunk", Base64(<< <<8, 9>> >>), 3, "undefined"),
     Frame("object", "audio_chunk", NotBase64, 1, "undefined")}
ServerErrors == {"undefined", "Synthesis failed"}

\* text that is no JSON, the JSON text null, a type the client does not
\* know, and the three types it knows
ServerFrames ==
    {Frame("invalid", "undefined", NotBase64, 0, "undefined"),
     Frame("null", "undefined", NotBase64, 0, "undefined"),
     Frame("object", "pong", NotBase64, 0, "undefined"),
     Frame("object", "final", NotBase64, 0, "undefined")}
    \cup AudioFrames
    \cup {Frame("object", "error", NotBase64, 0, m) : m \in ServerErrors}

\* the record of a handler that did nothing observable
Did(op) == [op |-> op, emitted |-> <<>>, sent |-> <<>>, scheduled |-> <<>>,
            settled |-> "none", threw |-> "none",
            opened |-> FALSE, by |-> "none", unexpected |-> FALSE,
            frame |-> NoFrame]

----------------------------------------------------------------------------
(* SimpleStreamingAudioPlayer *)

\* how many chunks the player buffers in one run of the model
MaxChunks == 2
\* how many WebSocket objects the client constructs in one run with a player
MaxPlayerSockets == 2

FailedToConnect == "Failed to connect to TTS service. Please check if the backend server is running."
RetryFailed == "Retry failed. Please check if the backend server is running."
NoText == "No text provided for speech."
PlayerNotConnected == "Not connected to TTS service."
ChunkFailed == "Failed to process audio chunk"
UnknownError == "Unknown error occurred"

\* error.includes('connect'), for the texts the error state can hold
IncludesConnect(e) ==
    e \in {FailedToConnect, ConnectionFailed, ReconnectFailed, NotConnected,
            PlayerNotConnected, "WebSocket not connected"}

\* the text prop, and !text || !text.trim()
PlayerTexts == {"", " ", "hello"}
IsBlank(text) == text \in {"", " "}
\* the voiceId prop
PlayerVoices == {"v1"}

\* A URL made by URL.createObjectURL is the one-element sequence holding
\* the bytes of its blob; null is the empty sequence.
NoUrl == <<>>
ObjectUrl(bytes) == <<bytes>>

\* the state of a player that is not mounted, and of one just mounted:
\*   gone           the instance has been unmounted (an instance mounts
\*                  once)
\*   connectDue     the timeout of the connect effect is pending
\*   seenUrl        currentAudioUrl as the effects of the last commit
\*                  captured it (the listeners, the cleanup)
Unmounted ==
    [mounted |-> FALSE, gone |-> FALSE, connectDue |-> FALSE,
     isConnected |-> FALSE, isLoading |-> FALSE, error |-> "null",
     audioChunks |-> <<>>, totalSize |-> 0,
     currentAudioUrl |-> NoUrl, seenUrl |-> NoUrl]

\* the effects have run for the state as it is
Committed(p) == p.seenUrl = p.currentAudioUrl

\* atob, then the loop copying the char codes: the bytes of the groups,
\* in order
Decoded(b64) ==
    LET RECURSIVE flat(_)
        flat(g) == IF g = <<>> THEN <<>> ELSE Head(g) \o flat(Tail(g))
    IN flat(b64.groups)

\* mutant: the combined array is filled from the last chunk backwards
Combined_Reversed(chunks) ==
    LET RECURSIVE cat(_)
        cat(c) == IF c = <<>> THEN <<>> ELSE cat(Tail(c)) \o Head(c)
    IN cat(chunks)

\* the combined Uint8Array: every chunk set at the offset the ones before
\* it end at
Combined(chunks) ==
    LET RECURSIVE cat(_)
        cat(c) == IF c = <<>> THEN <<>> ELSE Head(c) \o cat(Tail(c))
    IN cat(chunks)

\* URL.revokeObjectURL: nothing happens for a URL that is not registered
Revoked(urls, url) ==
    IF url # NoUrl /\ BagIn(url, urls) THEN urls (-) SetToBag({url}) ELSE urls

\* handleAudioChunk
handleAudioChunk(p, data) ==
    IF ~data.audio_base64.valid
    THEN [p EXCEPT !.error = ChunkFailed]
    ELSE LET newChunks == Append(p.audioChunks, Decoded(data.audio_base64))
         IN [p EXCEPT !.audioChunks = newChunks,
                      !.currentAudioUrl = ObjectUrl(Combined(newChunks)),
                      !.totalSize = data.total_size]

\* the object URLs after handleAudioChunk: the new one is created, the one
\* the listener's closure holds is revoked
UrlsAfterChunk(p, data, urls) ==
    IF ~data.audio_base64.valid THEN urls
    ELSE LET newChunks == Append(p.audioChunks, Decoded(data.audio_base64))
         IN Revoked(urls (+) SetToBag({ObjectUrl(Combined(newChunks))}), p.seenUrl)

\* handleFinal
handleFinal(p) == [p EXCEPT !.isLoading = FALSE]

\* handleError: data.message || 'Unknown error occurred'
handleError(p, message) ==
    [p EXCEPT !.error = IF message \in {"undefined", ""} THEN UnknownError ELSE message,
              !.isLoading = FALSE]

\* handleConnectionChange
handleConnectionChange(p, connected) == [p EXCEPT !.isConnected = connected]

\* emit: the listeners of a mounted player run, in the order of the events;
\* an event whose data is "frame" carries the parsed frame
Hear(p, emitted, frame) ==
    LET RECURSIVE run(_, _)
        run(q, i) ==
            IF i > Len(emitted) THEN q
            ELSE LET e == emitted[i]
                 IN run(CASE e.event = "connected" -> handleConnectionChange(q, e.data = "true")
                          [] e.event = "error" ->
                                handleError(q, IF e.data = "frame" THEN frame.message ELSE e.data)
                          [] e.event = "final" -> handleFinal(q)
                          [] e.event = "audioChunk" -> handleAudioChunk(q, frame)
                          [] OTHER -> q,
                        i + 1)
    IN IF p.mounted THEN run(p, 1) ELSE p

\* the reactions to the promise of the connect() the player called: the
\* rest of the connect effect (by "mount"), the then/catch of the Retry
\* button (by "retry")
Settled(p, by, outcome) ==
    IF ~p.mounted THEN p
    ELSE CASE by = "mount" /\ outcome = "resolved" ->
                [p EXCEPT !.isConnected = TRUE, !.error = "null"]
           [] by = "mount" /\ outcome = "rejected" ->
                [p EXCEPT !.error = FailedToConnect, !.isConnected = FALSE]
           [] by = "retry" /\ outcome = "resolved" ->
                [p EXCEPT !.isConnected = TRUE]
           [] by = "retry" /\ outcome = "rejected" ->
                [p EXCEPT !.error = RetryFailed]
           [] OTHER -> p

\* who made a socket, as the second player sees it: its own connect effect
\* made the sockets by "mount2"
BySecond(by) == IF by = "mount2" THEN "mount" ELSE "none"

\* constructor
Constructed ==
    /\ ws = "null"
    /\ isConnected = FALSE
    /\ reconnectAttempts = 0
    /\ reconnectDelay = BaseDelay
    /\ keepAliveInterval = FALSE
    /\ socks = EmptyBag
    /\ timers = 0
    /\ created = 0
    /\ last = Did("constructor")
    /\ player = Unmounted
    /\ objectUrls = EmptyBag
    /\ player2 = Unmounted

\* an error event has been dispatched and its close event is due
Dispatching == \E r \in Live : r.st = "failed"

\* this.ws.readyState, for this.ws not null
ReadyState ==
    IF ws = "closed" THEN "CLOSED"
    ELSE LET r == CHOOSE x \in Live : x.cur
         IN CASE r.st = "connecting" -> "CONNECTING"
              [] r.st = "open" -> "OPEN"
              [] r.st = "closing" -> "CLOSING"
              [] OTHER -> "CLOSED"

\* the sockets once this.ws no longer points to any of them
Released(bag) ==
    IF \E r \in BagToSet(bag) : r.cur
    THEN LET r == CHOOSE x \in BagToSet(bag) : x.cur
         IN Put(Drop(bag, r), [r EXCEPT !.cur = FALSE])
    ELSE bag

\* connect: this.ws = new WebSocket(wsUrl), whatever this.ws held; at most
\* cap sockets are made in one run
NewSocketUpTo(by, cap) ==
    /\ created < cap
    /\ BagCardinality(socks) < MaxLive
    /\ socks' = Put(Released(socks), Sock("connecting", FALSE, by, TRUE))
    /\ ws' = "live"
    /\ created' = created + 1

NewSocket(by) == NewSocketUpTo(by, MaxSockets)

\* connect(), called by a player (on mount, or by its Retry button)
ConnectUpTo(cap) ==
    /\ ~Dispatching
    /\ NewSocketUpTo("caller", cap)
    /\ last' = Did("connect")
    /\ UNCHANGED <<isConnected, reconnectAttempts, reconnectDelay,
                   keepAliveInterval, timers, accessVars, auth, playerVars>>

Connect == ConnectUpTo(MaxSockets)

\* the timeout set by attemptReconnect fires: this.connect().catch(...)
ReconnectTimerUpTo(cap) ==
    /\ ~Dispatching
    /\ timers > 0
    /\ NewSocketUpTo("timer", cap)
    /\ timers' = timers - 1
    /\ last' = Did("reconnectTimer")
    /\ UNCHANGED <<isConnected, reconnectAttempts, reconnectDelay,
                   keepAliveInterval, accessVars, auth, playerVars>>

ReconnectTimer == ReconnectTimerUpTo(MaxSockets)

\* mutant: the interval is never set
startKeepAlive_NotSet(running) == running

\* startKeepAlive: clears the interval that runs, if any, and sets one
startKeepAlive(running) == TRUE

\* mutant: onopen leaves the counter as it is
AttemptsOnOpen_Kept == reconnectAttempts

\* onopen: this.reconnectAttempts = 0
AttemptsOnOpen == 0

\* ws.onopen
OnOpen ==
    /\ ~Dispatching
    /\ \E r \in Live :
        /\ r.st = "connecting"
        /\ isConnected' = TRUE
        /\ reconnectAttempts' = AttemptsOnOpen
        /\ reconnectDelay' = BaseDelay
        /\ keepAliveInterval' = startKeepAlive(keepAliveInterval)
        /\ socks' = Put(Drop(socks, r), [r EXCEPT !.st = "open", !.opened = TRUE])
        /\ last' = [Did("onopen") EXCEPT
                        !.emitted = <<Emit("connected", "true")>>,
                        !.settled = "resolved",
                        !.by = r.by]
        /\ player' = Settled(Hear(player, <<Emit("connected", "true")>>, NoFrame),
                             r.by, "resolved")
        /\ player2' = Settled(Hear(player2, <<Emit("connected", "true")>>, NoFrame),
                              BySecond(r.by), "resolved")
    /\ UNCHANGED <<ws, timers, created, accessVars, auth, objectUrls>>

\* the delay once the promise of socket r has been rejected: the reaction
\* of this.connect().catch runs before the next event is dispatched
DelayAfterReject(r) ==
    IF ~r.opened /\ r.by = "timer" THEN reconnectDelay * 2 ELSE reconnectDelay

\* mutant: the handler emits the event and leaves the promise pending
Errored_NoReject(r) ==
    [Did("onerror") EXCEPT
        !.emitted = <<Emit("error", ConnectionFailed)>>,
        !.opened = r.opened,
        !.by = r.by]

\* what onerror of socket r did: reject(error) settles the promise unless
\* onopen has resolved it
Errored(r) ==
    [Did("onerror") EXCEPT
        !.emitted = <<Emit("error", ConnectionFailed)>>,
        !.settled = IF r.opened THEN "none" ELSE "rejected",
        !.opened = r.opened,
        !.by = r.by]

\* ws.onerror.  The browser fires it when the connection fails: on a socket
\* that never opened (always, close() before the handshake ends included),
\* or on an open or closing one that is lost.  The close event follows in
\* the same task.
OnError ==
    /\ ~Dispatching
    /\ \E r \in Live :
        /\ r.st \in {"connecting", "open", "closing"}
        /\ reconnectDelay' = DelayAfterReject(r)
        /\ socks' = Put(Drop(socks, r), [r EXCEPT !.st = "failed"])
        /\ last' = Errored(r)
        /\ player' = Settled(Hear(player, Errored(r).emitted, NoFrame),
                             r.by, Errored(r).settled)
        /\ player2' = Settled(Hear(player2, Errored(r).emitted, NoFrame),
                              BySecond(r.by), Errored(r).settled)
    /\ UNCHANGED <<ws, isConnected, reconnectAttempts, keepAliveInterval,
                   timers, created, accessVars, auth, objectUrls>>

\* attemptReconnect's test
MayReconnect == reconnectAttempts < maxReconnectAttempts

\* onclose's test
ShouldReconnect(ev) == ~ev.wasClean /\ ev.code # 1000

\* what onclose of socket r did, before attemptReconnect adds to it
Closed(r, ev) ==
    [Did("onclose") EXCEPT
        !.emitted = <<Emit("connected", "false")>>,
        !.opened = r.opened,
        !.by = r.by,
        !.unexpected = ~ev.wasClean]

\* ws.onclose, with attemptReconnect.  A socket that never opened closes
\* only after its error event; an open or closing one may also close
\* cleanly, or be lost without an error event.
OnClose ==
    \E r \in Live, ev \in CloseEvents :
        /\ \/ r.st = "failed" /\ ev = AbnormalClose
           \/ ~Dispatching /\ r.st \in {"open", "closing"} /\ r.opened
        /\ isConnected' = FALSE
        /\ IF ShouldReconnect(ev)
           THEN IF MayReconnect
                THEN /\ reconnectAttempts' = reconnectAttempts + 1
                     /\ timers' = timers + 1
                     /\ last' = [Closed(r, ev) EXCEPT
                            !.scheduled = <<[k |-> reconnectAttempts + 1,
                                             delay |-> reconnectDelay]>>]
                ELSE /\ last' = [Closed(r, ev) EXCEPT
                            !.emitted = Append(@, Emit("error", ReconnectFailed))]
                     /\ UNCHANGED <<reconnectAttempts, timers>>
           ELSE /\ last' = Closed(r, ev)
                /\ UNCHANGED <<reconnectAttempts, timers>>
        /\ socks' = Drop(socks, r)
        /\ ws' = IF r.cur THEN "closed" ELSE ws
        /\ player' = Hear(player, last'.emitted, NoFrame)
        /\ player2' = Hear(player2, last'.emitted, NoFrame)
        /\ UNCHANGED <<reconnectDelay, keepAliveInterval, created, accessVars, auth,
                       objectUrls>>

\* this.ws.send(msg): raises on a CONNECTING socket, transmits on an OPEN
\* one, drops the data on a CLOSING or CLOSED one
SendOnWs(msg, op) ==
    CASE ReadyState = "CONNECTING" -> [Did(op) EXCEPT !.threw = "InvalidStateError"]
      [] ReadyState = "OPEN" -> [Did(op) EXCEPT !.sent = <<msg>>]
      [] OTHER -> Did(op)

\* the sockets once res has been done on this.ws: a message that was
\* transmitted reaches the server
AfterSend(bag, res) ==
    IF res.sent # <<>> /\ \E r \in BagToSet(bag) : r.cur
    THEN LET r == CHOOSE x \in BagToSet(bag) : x.cur
         IN Put(Drop(bag, r), [r EXCEPT !.asked = TRUE])
    ELSE bag

\* mutant: the request goes to sendMessage without the isConnected test
StreamResult_NoTest(text, voice) ==
    IF ws # "null"
    THEN SendOnWs(TtsMessage(text, voice), "streamTextToSpeech")
    ELSE [Did("streamTextToSpeech") EXCEPT !.threw = "WebSocket not connected"]

\* streamTextToSpeech, with sendMessage
StreamResult(text, voice) ==
    IF ~isConnected
    THEN [Did("streamTextToSpeech") EXCEPT !.threw = NotConnected]
    ELSE IF isConnected /\ ws # "null"
         THEN SendOnWs(TtsMessage(text, voice), "streamTextToSpeech")
         ELSE [Did("streamTextToSpeech") EXCEPT !.threw = "WebSocket not connected"]

StreamTextToSpeech ==
    /\ ~Dispatching
    /\ \E text \in Texts, voice \in Voices :
        /\ last' = StreamResult(text, voice)
        /\ socks' = AfterSend(socks, StreamResult(text, voice))
    /\ UNCHANGED <<ws, isConnected, reconnectAttempts, reconnectDelay,
                   keepAliveInterval, timers, created, accessVars, auth,
                   playerVars>>

\* the setInterval callback of startKeepAlive
KeepAliveTick ==
    /\ ~Dispatching
    /\ keepAliveInterval
    /\ last' = IF isConnected /\ ws # "null" /\ ReadyState = "OPEN"
               THEN SendOnWs(Ping, "keepAlive")
               ELSE Did("keepAlive")
    /\ UNCHANGED <<ws, isConnected, reconnectAttempts, reconnectDelay,
                   keepAliveInterval, socks, timers, created, accessVars, auth,
                   playerVars>>

\* the sockets after this.ws.close(): the closing handshake of an open
\* socket starts, a connecting one is failed
AfterClose(bag) ==
    IF \E r \in BagToSet(bag) : r.cur /\ r.st \in {"connecting", "open"}
    THEN LET r == CHOOSE x \in BagToSet(bag) : x.cur
         IN Put(Drop(bag, r), [r EXCEPT !.st = "closing"])
    ELSE bag

\* disconnect with stopKeepAlive, on the sockets in bag
DoDisconnect(bag) ==
    /\ keepAliveInterval' = FALSE
    /\ IF ws # "null"
       THEN /\ socks' = Released(AfterClose(bag))
            /\ ws' = "null"
            /\ isConnected' = FALSE
       ELSE /\ socks' = bag
            /\ UNCHANGED <<ws, isConnected>>
    /\ UNCHANGED <<reconnectAttempts, reconnectDelay, timers, created>>

\* disconnect(), called by some caller
Disconnect ==
    /\ ~Dispatching
    /\ DoDisconnect(socks)
    /\ last' = Did("disconnect")
    /\ UNCHANGED <<accessVars, auth, playerVars>>

\* mutant: an error frame is dropped
handleMessage_NoError(data) ==
    CASE data.type = "audio_chunk" -> <<Emit("audioChunk", "frame")>>
      [] data.type = "final" -> <<Emit("final", "frame")>>
      [] OTHER -> <<>>

\* handleMessage: what it emits for the parsed data
handleMessage(data) ==
    CASE data.type = "audio_chunk" -> <<Emit("audioChunk", "frame")>>
      [] data.type = "final" -> <<Emit("final", "frame")>>
      [] data.type = "error" -> <<Emit("error", "frame")>>
      [] OTHER -> <<>>

\* mutant: text that does not parse is reported to the `error` listeners
Received_ParseError(frame) ==
    IF frame.json # "object" THEN <<Emit("error", "frame")>> ELSE handleMessage(frame)

\* ws.onmessage: JSON.parse raises on text that is no JSON, data.type
\* raises on the JSON text null; both are caught and logged
Received(frame) ==
    IF frame.json # "object" THEN <<>> ELSE handleMessage(frame)

\* ws.onmessage, on any socket of the client that is open
OnMessage ==
    /\ ~Dispatching
    /\ \E r \in Live, frame \in ServerFrames :
        /\ r.st = "open"
        /\ frame.type \in {"audio_chunk", "final"} => r.asked
        /\ player.mounted /\ frame.type = "audio_chunk" /\ frame.audio_base64.valid
              => Len(player.audioChunks) < MaxChunks
        /\ player2.mounted /\ frame.type = "audio_chunk" /\ frame.audio_base64.valid
              => Len(player2.audioChunks) < MaxChunks
        /\ last' = [Did("onmessage") EXCEPT
                        !.emitted = Received(frame),
                        !.frame = frame]
        /\ player' = Hear(player, Received(frame), frame)
        /\ player2' = Hear(player2, Received(frame), frame)
        /\ objectUrls' =
              LET chunk == Received(frame) = <<Emit("audioChunk", "frame")>>
                  first == IF player.mounted /\ chunk
                           THEN UrlsAfterChunk(player, frame, objectUrls)
                           ELSE objectUrls
              IN IF player2.mounted /\ chunk
                 THEN UrlsAfterChunk(player2, frame, first)
                 ELSE first
    /\ UNCHANGED <<ws, isConnected, reconnectAttempts, reconnectDelay,
                   keepAliveInterval, socks, timers, created, accessVars, auth>>

----------------------------------------------------------------------------
(* The player's own steps *)

\* the sockets once the component that called connect() for them is gone:
\* the reactions to their promises set the state of no mounted component
Orphaned(bag) ==
    LET RECURSIVE go(_)
        go(S) == IF S = {} THEN EmptyBag
                 ELSE LET r == CHOOSE x \in S : TRUE
                          q == IF r.by \in {"mount", "retry"}
                               THEN [r EXCEPT !.by = "gone"] ELSE r
                      IN (q :> CopiesIn(r, bag)) (+) go(S \ {r})
    IN go(BagToSet(bag))

\* the component mounts: the listeners are registered, the connect effect
\* sets its timeout
Mount ==
    /\ ~Dispatching
    /\ ~player.mounted
    /\ ~player.gone
    /\ player' = [Unmounted EXCEPT !.mounted = TRUE, !.connectDue = TRUE]
    /\ last' = Did("mount")
    /\ UNCHANGED <<ws, isConnected, reconnectAttempts, reconnectDelay,
                   keepAliveInterval, socks, timers, created, accessVars, auth,
                   objectUrls, player2>>

\* the timeout of the connect effect fires: await websocketTtsService.connect()
MountConnect ==
    /\ ~Dispatching
    /\ player.mounted /\ player.connectDue
    /\ created < MaxPlayerSockets
    /\ NewSocket("mount")
    /\ player' = [player EXCEPT !.connectDue = FALSE]
    /\ last' = Did("connect")
    /\ UNCHANGED <<isConnected, reconnectAttempts, reconnectDelay,
                   keepAliveInterval, timers, accessVars, auth, objectUrls,
                   player2>>

\* the Retry Connection button, rendered when error.includes('connect')
RetryClick ==
    /\ ~Dispatching
    /\ player.mounted /\ Committed(player)
    /\ player.error # "null" /\ IncludesConnect(player.error)
    /\ created < MaxPlayerSockets
    /\ NewSocket("retry")
    /\ player' = [player EXCEPT !.error = "null"]
    /\ last' = Did("connect")
    /\ UNCHANGED <<isConnected, reconnectAttempts, reconnectDelay,
                   keepAliveInterval, timers, accessVars, auth, objectUrls,
                   player2>>

\* startStreaming, up to the call of the service: the state is reset
Reset(p) ==
    [p EXCEPT !.isLoading = TRUE, !.error = "null",
              !.audioChunks = <<>>, !.totalSize = 0,
              !.currentAudioUrl = NoUrl]

\* mutant: the state is reset before the text and the connection are tested
startStreaming_ResetFirst(p, text, res) ==
    IF IsBlank(text) THEN [Reset(p) EXCEPT !.error = NoText]
    ELSE IF ~p.isConnected THEN [Reset(p) EXCEPT !.error = PlayerNotConnected]
    ELSE IF res.threw # "none"
         THEN [Reset(p) EXCEPT !.error = res.threw, !.isLoading = FALSE]
    ELSE Reset(p)

\* startStreaming: the state it leaves, res being what streamTextToSpeech did
startStreaming(p, text, res) ==
    IF IsBlank(text) THEN [p EXCEPT !.error = NoText]
    ELSE IF ~p.isConnected THEN [p EXCEPT !.error = PlayerNotConnected]
    ELSE IF res.threw # "none"
         THEN [Reset(p) EXCEPT !.error = res.threw, !.isLoading = FALSE]
    ELSE Reset(p)

\* the play button, enabled unless isLoading || error || !isConnected; with
\* no audio URL, handleButtonClick calls startStreaming
ButtonClick ==
    /\ ~Dispatching
    /\ player.mounted /\ Committed(player)
    /\ ~player.isLoading /\ player.error = "null" /\ player.isConnected
    /\ player.currentAudioUrl = NoUrl
    /\ \E text \in PlayerTexts, voice \in PlayerVoices :
        LET res == StreamResult(text, voice)
            called == ~IsBlank(text) /\ player.isConnected
        IN /\ player' = startStreaming(player, text, res)
           /\ objectUrls' = IF called THEN Revoked(objectUrls, player.currentAudioUrl)
                            ELSE objectUrls
           /\ last' = IF called THEN [res EXCEPT !.op = "startStreaming"]
                      ELSE Did("startStreaming")
           /\ socks' = IF called THEN AfterSend(socks, res) ELSE socks
    /\ UNCHANGED <<ws, isConnected, reconnectAttempts, reconnectDelay,
                   keepAliveInterval, timers, created, accessVars, auth, player2>>

\* the effects run after a render that changed currentAudioUrl: the
\* cleanup of the last effect revokes the URL it captured, the listeners
\* are registered again
Commit ==
    /\ ~Dispatching
    /\ player.mounted /\ ~Committed(player)
    /\ objectUrls' = Revoked(objectUrls, player.seenUrl)
    /\ player' = [player EXCEPT !.seenUrl = player.currentAudioUrl]
    /\ last' = Did("commit")
    /\ UNCHANGED <<ws, isConnected, reconnectAttempts, reconnectDelay,
                   keepAliveInterval, socks, timers, created, accessVars, auth,
                   player2>>

\* the component unmounts: the cleanups clear the timeout, call
\* disconnect() and revoke the audio URL
Unmount ==
    /\ ~Dispatching
    /\ player.mounted /\ Committed(player)
    /\ DoDisconnect(Orphaned(socks))
    /\ objectUrls' = Revoked(objectUrls, player.seenUrl)
    /\ player' = [Unmounted EXCEPT !.gone = TRUE]
    /\ last' = [Did("disconnect") EXCEPT !.by = "unmount"]
    /\ UNCHANGED <<accessVars, auth, player2>>

\* the second player mounts
Mount2 ==
    /\ ~Dispatching
    /\ ~player2.mounted
    /\ ~player2.gone
    /\ player2' = [Unmounted EXCEPT !.mounted = TRUE, !.connectDue = TRUE]
    /\ last' = Did("mount2")
    /\ UNCHANGED <<ws, isConnected, reconnectAttempts, reconnectDelay,
                   keepAliveInterval, socks, timers, created, accessVars, auth,
                   objectUrls, player>>

\* the timeout of its connect effect fires
MountConnect2 ==
    /\ ~Dispatching
    /\ player2.mounted /\ player2.connectDue
    /\ created < MaxPlayerSockets
    /\ NewSocket("mount2")
    /\ player2' = [player2 EXCEPT !.connectDue = FALSE]
    /\ last' = Did("connect")
    /\ UNCHANGED <<isConnected, reconnectAttempts, reconnectDelay,
                   keepAliveInterval, timers, accessVars, auth, objectUrls,
                   player>>

\* its effects run after a render that changed its currentAudioUrl
Commit2 ==
    /\ ~Dispatching
    /\ player2.mounted /\ ~Committed(player2)
    /\ objectUrls' = Revoked(objectUrls, player2.seenUrl)
    /\ player2' = [player2 EXCEPT !.seenUrl = player2.currentAudioUrl]
    /\ last' = Did("commit2")
    /\ UNCHANGED <<ws, isConnected, reconnectAttempts, reconnectDelay,
                   keepAliveInterval, socks, timers, created, accessVars, auth,
                   player>>

----------------------------------------------------------------------------
(* AuthProvider, with apiService and its response interceptor *)

\* the tokens the server issues, and the users it knows
Tokens == {"t1", "t2"}
Users == {"ann", "bob"}

\* what the server answers: success, a 2xx body whose status is not
\* 'success', 401, another failure (an error status, no response at all)
Responses == {"success", "refused", "401", "failed"}

\* what the last call of the provider did
AuthDid(op, resp, threw) == [op |-> op, resp |-> resp, threw |-> threw]

\* the provider after its first render:
\*   stored    localStorage's whisper_token
\*   token     useState(localStorage.getItem('whisper_token'))
\*   checkDue  the effect on [token] is due
\*   pending   the calls of the provider that await their response
AuthMounted(stored) ==
    [user |-> "null", token |-> stored, stored |-> stored, isLoading |-> TRUE,
     checkDue |-> TRUE, pending |-> {}, last |-> AuthDid("none", "none", "none")]

\* the provider is not rendered while the client runs
AuthIdle == auth = [AuthMounted("null") EXCEPT !.checkDue = FALSE, !.isLoading = FALSE]

\* the response interceptor: a 401 removes whisper_token
Intercepted(a, resp) == IF resp = "401" THEN [a EXCEPT !.stored = "null"] ELSE a

\* setToken(t): the effect on [token] runs again when the value changes
WithToken(a, t) == [a EXCEPT !.token = t, !.checkDue = @ \/ a.token # t]

\* the effect on [token]: checkAuth up to its await
CheckAuth ==
    /\ auth.checkDue
    /\ "me" \notin auth.pending
    /\ auth' = IF auth.token # "null"
               THEN [auth EXCEPT !.checkDue = FALSE, !.pending = @ \cup {"me"}]
               ELSE [auth EXCEPT !.checkDue = FALSE, !.isLoading = FALSE,
                                 !.last = AuthDid("checkAuth", "none", "none")]
    /\ UNCHANGED <<accessVars, wsVars, playerVars>>

\* checkAuth after apiService.getCurrentUser() settled
CheckAuthDone ==
    /\ "me" \in auth.pending
    /\ \E resp \in Responses \ {"refused"}, u \in Users :
        LET a == Intercepted([auth EXCEPT !.pending = @ \ {"me"},
                                         !.isLoading = FALSE,
                                         !.last = AuthDid("checkAuth", resp, "none")],
                             resp)
        IN auth' = IF resp = "success"
                   THEN [a EXCEPT !.user = u]
                   ELSE WithToken([a EXCEPT !.stored = "null"], "null")
    /\ UNCHANGED <<accessVars, wsVars, playerVars>>

\* login or register, up to its await
SignIn ==
    /\ \E op \in {"login", "register"} :
        /\ op \notin auth.pending
        /\ auth' = [auth EXCEPT !.pending = @ \cup {op}]
    /\ UNCHANGED <<accessVars, wsVars, playerVars>>

\* login or register after apiService.login / register settled: they
\* return { success: ... } and never raise
SignInDone ==
    /\ \E op \in {"login", "register"}, resp \in Responses, u \in Users, t \in Tokens :
        /\ op \in auth.pending
        /\ LET a == Intercepted([auth EXCEPT !.pending = @ \ {op},
                                             !.last = AuthDid(op, resp, "none")],
                                 resp)
           IN auth' = IF resp = "success"
                      THEN WithToken([a EXCEPT !.user = u, !.stored = t], t)
                      ELSE a
    /\ UNCHANGED <<accessVars, wsVars, playerVars>>

\* logout, up to its await
Logout ==
    /\ "logout" \notin auth.pending
    /\ auth' = [auth EXCEPT !.pending = @ \cup {"logout"}]
    /\ UNCHANGED <<accessVars, wsVars, playerVars>>

\* mutant: the session is cleared only when the server accepted the logout
LoggedOut_OnSuccess(a, resp) ==
    IF resp = "success"
    THEN WithToken([a EXCEPT !.user = "null", !.stored = "null",
                             !.last = AuthDid("logout", resp, "none")], "null")
    ELSE [a EXCEPT !.last = AuthDid("logout", resp, "none")]

\* logout after apiService.logout() settled: apiService.logout catches
\* the failure of the request, logout's finally clears the session
LoggedOut(a, resp) ==
    WithToken([a EXCEPT !.user = "null", !.stored = "null",
                        !.last = AuthDid("logout", resp, "none")], "null")

LogoutDone ==
    /\ "logout" \in auth.pending
    /\ \E resp \in Responses \ {"refused"} :
        auth' = LoggedOut(Intercepted([auth EXCEPT !.pending = @ \ {"logout"}], resp), resp)
    /\ UNCHANGED <<accessVars, wsVars, playerVars>>

\* a request of another method of apiService (settings, preferences,
\* videos) settles: the response passes the interceptor
OtherRequestDone ==
    /\ \E resp \in Responses \ {"refused"} :
        auth' = [Intercepted(auth, resp) EXCEPT !.last = AuthDid("request", resp, "none")]
    /\ UNCHANGED <<accessVars, wsVars, playerVars>>

\* the provider is rendered with whatever token an earlier visit left
InitAuth ==
    /\ \E stored \in Tokens \cup {"null"} : auth = AuthMounted(stored)
    /\ Constructed
    /\ planType = "free"
    /\ featurePath = <<>>
    /\ call = "none"
    /\ accessRet = JSUndefined
    /\ planRet = "none"
    /\ msgRet = <<>>

NextAuth ==
    \/ CheckAuth
    \/ CheckAuthDone
    \/ SignIn
    \/ SignInDone
    \/ Logout
    \/ LogoutDone
    \/ OtherRequestDone

SpecAuth == InitAuth /\ [][NextAuth]_vars

\* the resolver is not called while the client runs
ResolverIdle ==
    /\ planType = "free"
    /\ featurePath = <<>>
    /\ call = "none"
    /\ accessRet = JSUndefined
    /\ planRet = "none"
    /\ msgRet = <<>>

Init == Constructed /\ ResolverIdle /\ AuthIdle

Next ==
    \/ Connect
    \/ ReconnectTimer
    \/ OnOpen
    \/ OnError
    \/ OnClose
    \/ StreamTextToSpeech
    \/ KeepAliveTick
    \/ Disconnect
    \/ OnMessage

Spec == Init /\ [][Next]_vars

\* The client with one caller that keeps to the life cycle Disconnected ->
\* Connecting -> Connected -> Reconnecting: connect() is called only when
\* no socket has events to come and no retry is pending.  The code does
\* not enforce this; Spec is the client as it is.
Disconnected == socks = EmptyBag /\ timers = 0

ConnectWhenDisconnected == Disconnected /\ Connect

NextSingle ==
    \/ ConnectWhenDisconnected
    \/ ReconnectTimer
    \/ OnOpen
    \/ OnError
    \/ OnClose
    \/ StreamTextToSpeech
    \/ KeepAliveTick
    \/ Disconnect
    \/ OnMessage

SpecSingle == Init /\ [][NextSingle]_vars

\* connect() calls, retry timers and transport events alone, in any
\* interleaving
ConnectCall == ConnectUpTo(MaxRetrySockets)

RetryTimer == ReconnectTimerUpTo(MaxRetrySockets)

NextReconnect ==
    \/ ConnectCall
    \/ RetryTimer
    \/ OnOpen
    \/ OnError
    \/ OnClose

SpecReconnect == Init /\ [][NextReconnect]_vars

\* the timeout of attemptReconnect, in the runs with a player
PlayerReconnectTimer == created < MaxPlayerSockets /\ ReconnectTimer

\* The singleton with one SimpleStreamingAudioPlayer as its only caller
NextPlayer ==
    \/ Mount
    \/ MountConnect
    \/ RetryClick
    \/ ButtonClick
    \/ Commit
    \/ Unmount
    \/ PlayerReconnectTimer
    \/ OnOpen
    \/ OnError
    \/ OnClose
    \/ OnMessage
    \/ KeepAliveTick

SpecPlayer == Init /\ [][NextPlayer]_vars

\* the close event that follows an error event in the same task
CloseAfterError == Dispatching /\ OnClose

\* the server ends the stream of a request it received
FinalArrives == OnMessage /\ last'.frame.type = "final"

\* The player with the scheduling the browser and a working server give:
\* a timeout that is set fires, a handshake that can complete completes,
\* the close event follows the error event, a request the server received
\* on a socket is answered by `final` as long as the socket stays open
SpecPlayerFair ==
    /\ SpecPlayer
    /\ WF_vars(PlayerReconnectTimer)
    /\ WF_vars(OnOpen)
    /\ WF_vars(CloseAfterError)
    /\ WF_vars(FinalArrives)

\* The singleton with two players on one page: the first is used (its
\* button, its unmount), the second mounts, connects and listens
NextTwoPlayers ==
    \/ Mount
    \/ MountConnect
    \/ ButtonClick
    \/ Commit
    \/ Unmount
    \/ Mount2
    \/ MountConnect2
    \/ Commit2
    \/ OnOpen
    \/ OnError
    \/ OnClose
    \/ OnMessage

SpecTwoPlayers == Init /\ [][NextTwoPlayers]_vars

----------------------------------------------------------------------------
(* The resolver's calls *)

InitAccess ==
    /\ planType \in PlanTypes
    /\ featurePath \in FeaturePaths
    /\ call = "none"
    /\ accessRet = JSUndefined
    /\ planRet = "none"
    /\ msgRet = <<>>
    /\ Constructed
    /\ AuthIdle

HasFeatureAccessCall ==
    /\ call = "none"
    /\ call' = "hasFeatureAccess"
    /\ accessRet' = hasFeatureAccess(planType, featurePath)
    /\ UNCHANGED <<planType, featurePath, planRet, msgRet, wsVars, playerVars, auth>>

GetRequiredPlanCall ==
    /\ call = "none"
    /\ call' = "getRequiredPlan"
    /\ planRet' = getRequiredPlan(featurePath)
    /\ UNCHANGED <<planType, featurePath, accessRet, msgRet, wsVars, playerVars, auth>>

\* LockedFeature: canAccess(featurePath), and when denied the plan of the
\* badge and the upgrade prompt
LockedFeatureRender ==
    /\ call = "none"
    /\ call' = "LockedFeature"
    /\ accessRet' = canAccess(planType, featurePath)
    /\ planRet' = IF Truthy(canAccess(planType, featurePath)) THEN planRet
                  ELSE LockedRequiredPlan(featurePath)
    /\ msgRet' = IF Truthy(canAccess(planType, featurePath)) THEN <<>>
                 ELSE getUpgradePrompt(planType, featurePath)
    /\ UNCHANGED <<planType, featurePath, wsVars, playerVars, auth>>

NextAccess == HasFeatureAccessCall \/ GetRequiredPlanCall \/ LockedFeatureRender

SpecAccess == InitAccess /\ [][NextAccess]_vars

----------------------------------------------------------------------------
(* Properties of the resolver, under SpecAccess *)

Segs == Split(featurePath)

PathOf(segs) == Join(segs)

\* some tier grants the path, and m is the lowest tier that does
IsMinimumTier(m, path) ==
    /\ m \in Tiers
    /\ Grants(m, path)
    /\ \A t \in Tiers : TierRank[t] < TierRank[m] => ~Grants(t, path)

\* C1: hasFeatureAccess, called directly or through canAccess, returns a
\* boolean for every plan type (a tier, an unknown one, none) and every
\* path (empty, with empty segments, past a flag, not in the table): it
\* never raises
C1_AccessIsTotal ==
    call \in {"hasFeatureAccess", "LockedFeature"} => accessRet.kind = "boolean"

\* a path running past a flag, for a plan type the table does not know
C1_Witness ==
    /\ call = "hasFeatureAccess"
    /\ planType = "gold"
    /\ featurePath = <<"dashboard", ".", "home", ".", "unknown">>
    /\ accessRet = F

\* C2: hasFeatureAccess returns true only for a path that is a flag of the
\* tier's table with the value true; a group, a missing segment and a path
\* past a flag are denied
C2_FailClosed ==
    (call = "hasFeatureAccess" /\ planType \in Tiers /\ Truthy(accessRet))
        => /\ IsFlag(planType, Segs)
           /\ OwnValue(PLAN_CONSTRAINTS.props[planType], Segs).val

\* C3: on every path the table defines, what free grants basic grants, and
\* what basic grants premium grants; executive_summary is granted by all
\* three, dashboard.topics by premium alone
C3_TierMonotone ==
    /\ IsDefinedPath(Segs) =>
          /\ Grants("free", featurePath) => Grants("basic", featurePath)
          /\ Grants("basic", featurePath) => Grants("premium", featurePath)
    /\ featurePath = PathOf(<<"analysis", "ai_analysis", "executive_summary">>)
          => \A t \in Tiers : Grants(t, featurePath)
    /\ featurePath = PathOf(<<"dashboard", "topics">>)
          => /\ ~Grants("free", featurePath)
             /\ ~Grants("basic", featurePath)
             /\ Grants("premium", featurePath)

C3_Witness ==
    /\ call = "hasFeatureAccess"
    /\ planType = "premium"
    /\ featurePath = PathOf(<<"dashboard", "topics">>)
    /\ accessRet = T
    /\ ~Grants("basic", featurePath)

\* C4: getRequiredPlan returns the lowest tier, in the order free, basic,
\* premium, that hasFeatureAccess grants the path to, and premium when no
\* tier grants it; features.channel_following gives basic
C4_RequiredPlanIsMinimum ==
    call = "getRequiredPlan" =>
        /\ (\E t \in Tiers : Grants(t, featurePath))
              => IsMinimumTier(planRet, featurePath)
        /\ (\A t \in Tiers : ~Grants(t, featurePath)) => planRet = "premium"
        /\ featurePath = PathOf(<<"features", "channel_following">>)
              => planRet = "basic"

C4_Witness ==
    /\ call = "getRequiredPlan"
    /\ featurePath = PathOf(<<"features", "channel_following">>)
    /\ planRet = "basic"
    /\ ~Grants("free", featurePath)

\* the fallback: a path no tier grants
C4_WitnessFallback ==
    /\ call = "getRequiredPlan"
    /\ featurePath = PathOf(<<"dashboard", "unknown">>)
    /\ planRet = "premium"

\* C5: when the user's tier (free, basic, premium, or no subscription,
\* which counts as free) is denied a path the table defines, the upgrade
\* prompt names the lowest tier that grants the path, and that tier is
\* above the user's; a free user is denied dashboard.my_channels with a
\* prompt naming Basic, a premium user is granted it
C5_PromptNamesHigherTier ==
    (call = "LockedFeature" /\ planType \in Tiers \cup {"undefined"}) =>
        /\ (IsDefinedPath(Segs) /\ ~Truthy(accessRet)) =>
              \E m \in Tiers :
                  /\ IsMinimumTier(m, featurePath)
                  /\ msgRet = getUpgradeMessage(CurrentPlan(planType), m)
                  /\ msgRet[2] = planNames[m]
                  /\ TierRank[m] > TierRank[CurrentPlan(planType)]
        /\ featurePath = PathOf(<<"dashboard", "my_channels">>) =>
              /\ CurrentPlan(planType) = "free"
                    => ~Truthy(accessRet) /\ msgRet[2] = "Basic"
              /\ planType = "premium" => Truthy(accessRet)

C5_Witness ==
    /\ call = "LockedFeature"
    /\ planType = "free"
    /\ featurePath = PathOf(<<"dashboard", "my_channels">>)
    /\ accessRet = F
    /\ msgRet[2] = "Basic"

\* C6: a path that is a flag in one tier is a flag, with a boolean value,
\* in all three
C6_TableComplete ==
    IsDefinedPath(Segs) =>
        \A t \in Tiers :
            /\ IsFlag(t, Segs)
            /\ OwnValue(PLAN_CONSTRAINTS.props[t], Segs).val \in BOOLEAN

C6_Witness ==
    /\ call = "hasFeatureAccess"
    /\ planType = "basic"
    /\ featurePath = PathOf(<<"dashboard", "queues">>)
    /\ IsFlag("free", Segs)
    /\ accessRet = F

\* C20: a plan type that is none of free, basic, premium (no subscription
\* included) is resolved as free: hasFeatureAccess, called directly or
\* through canAccess, returns what it returns for free on the same path
C20_UnknownTierIsFree ==
    (call \in {"hasFeatureAccess", "LockedFeature"} /\ planType \notin Tiers)
        => accessRet = hasFeatureAccess("free", featurePath)

\* C28: for a path the table defines and a tier that is denied it, the
\* plan of LockedFeature's badge is the plan the upgrade message names
C28_BadgeMatchesMessage ==
    (call = "LockedFeature" /\ planType \in Tiers \cup {"undefined"}
        /\ IsDefinedPath(Segs) /\ ~Truthy(accessRet)) =>
            /\ planRet \in Tiers
            /\ msgRet[2] = planNames[planRet]
            /\ planRet = getRequiredPlan(featurePath)

\* the badge of a path whose name holds the name of another feature
C28_Witness ==
    /\ call = "LockedFeature"
    /\ planType = "basic"
    /\ featurePath = PathOf(<<"features", "youtube_search">>)
    /\ accessRet = F
    /\ planRet = "premium"
    /\ msgRet[2] = "Premium"

\* a basic plan sees the badge of tone_analysis, found by the third test
C28_WitnessTone ==
    /\ call = "LockedFeature"
    /\ planType = "basic"
    /\ featurePath = PathOf(<<"analysis", "ai_analysis", "tone_analysis">>)
    /\ planRet = "premium"

----------------------------------------------------------------------------
(* Properties of the streaming client, under Spec *)

serviceState == <<ws, isConnected, reconnectAttempts, reconnectDelay,
                  keepAliveInterval, socks, timers>>

\* how many times a handler emitted the event
Count(emitted, e) == Cardinality({i \in DOMAIN emitted : emitted[i] = e})

RECURSIVE Pow2(_)
Pow2(n) == IF n <= 0 THEN 1 ELSE 2 * Pow2(n - 1)

\* C7: when a socket opens, the handler leaves isConnected true, has
\* emitted `connected` with true, has the keep-alive interval running, and
\* has resolved the promise of the connect() that made the socket
C7_OpenMakesConnected ==
    last.op = "onopen" =>
        /\ isConnected
        /\ Count(last.emitted, Emit("connected", "true")) = 1
        /\ keepAliveInterval
        /\ last.settled = "resolved"

\* the socket of a reconnect attempt opens, the interval not running before
C7_Witness ==
    /\ last.op = "onopen"
    /\ last.by = "timer"
    /\ last.settled = "resolved"
    /\ isConnected
    /\ keepAliveInterval

\* C8: streamTextToSpeech with isConnected false raises at once, sends
\* nothing on any socket, and leaves the client as it was (there is nothing
\* it could queue the request in)
C8_StreamFailsFast ==
    [][(last'.op = "streamTextToSpeech" /\ last' # last /\ ~isConnected) =>
          /\ last'.threw = NotConnected
          /\ last'.sent = <<>>
          /\ UNCHANGED serviceState]_vars

\* refused although this.ws is an open socket
C8_Witness ==
    /\ last.op = "streamTextToSpeech"
    /\ ~isConnected
    /\ last.threw = NotConnected
    /\ last.sent = <<>>
    /\ ws = "live"
    /\ ReadyState = "OPEN"

\* C9: the unexpected close of a socket that had opened schedules attempt 1
\* after 1000 ms; the handler that finds the attempts used up emits the
\* final error once, and then no attempt is pending or under way
C9_ReconnectThenGiveUp ==
    /\ (last.op = "onclose" /\ last.opened /\ last.unexpected)
          => last.scheduled = <<[k |-> 1, delay |-> BaseDelay]>>
    /\ (last.op = "onclose" /\ Count(last.emitted, Emit("error", ReconnectFailed)) > 0)
          => /\ Count(last.emitted, Emit("error", ReconnectFailed)) = 1
             /\ reconnectAttempts = maxReconnectAttempts
             /\ timers = 0
             /\ socks = EmptyBag

\* C10: when the failure of a reconnect attempt schedules the next one,
\* attempt k waits 1000 * 2^(k-1) ms
C10_DelayDoublesPerAttempt ==
    (last.op = "onclose" /\ last.by = "timer" /\ ~last.opened /\ last.scheduled # <<>>)
        => last.scheduled[1].delay = BaseDelay * Pow2(last.scheduled[1].k - 1)

\* how many sockets of the client are connecting or open
Usable ==
    LET RECURSIVE sum(_)
        sum(S) == IF S = {} THEN 0
                  ELSE LET r == CHOOSE x \in S : TRUE
                       IN (IF r.st \in {"connecting", "open"}
                           THEN CopiesIn(r, socks) ELSE 0) + sum(S \ {r})
    IN sum(Live)

\* C11: after disconnect(), and after a clean close, the client makes no
\* socket by itself: the next step is not a timeout of attemptReconnect
\* calling connect()
C11_NoReconnectAfterDisconnect ==
    [][(last.op = "disconnect" \/ (last.op = "onclose" /\ ~last.unexpected))
          => last'.op # "reconnectTimer"]_vars

\* C16: at most one socket of the client is connecting or open
C16_OneSocketAtATime == Usable <= 1

\* C19: the error event of a socket that never opened emits `error` once
\* and rejects the promise of its connect(); the close event that follows
\* it leaves isConnected false
C19_ErrorWhileConnecting ==
    /\ (last.op = "onerror" /\ ~last.opened)
          => /\ Count(last.emitted, Emit("error", ConnectionFailed)) = 1
             /\ last.settled = "rejected"
    /\ (last.op = "onclose" /\ ~last.opened) => ~isConnected

\* the handshake of a caller's socket failed
C19_Witness ==
    /\ last.op = "onclose"
    /\ ~last.opened
    /\ last.by = "caller"
    /\ last.unexpected
    /\ ~isConnected
    /\ ws = "closed"

----------------------------------------------------------------------------
(* Properties of the player on the client, under SpecPlayer *)

\* a step of onmessage that handled the frame kept in last
Handled == last'.op = "onmessage" /\ vars' # vars

RECURSIVE SizeOf(_)
SizeOf(chunks) == IF chunks = <<>> THEN 0 ELSE Len(Head(chunks)) + SizeOf(Tail(chunks))

\* blob holds the bytes of the chunks, chunk after chunk
IsConcatenation(blob, chunks) ==
    /\ Len(blob) = SizeOf(chunks)
    /\ \A i \in 1..Len(chunks) : \A j \in 1..Len(chunks[i]) :
          blob[SizeOf(SubSeq(chunks, 1, i - 1)) + j] = chunks[i][j]

\* C12: handling an audio_chunk frame appends its decoded bytes to the
\* buffer and changes no chunk before it; the audio URL is a live object
\* URL of the concatenation of the buffer, as long as the sizes of the
\* chunks together; totalSize is the total_size of the frame
C12_ChunksReassembled ==
    [][(Handled /\ player.mounted /\ last'.frame.type = "audio_chunk"
            /\ last'.frame.audio_base64.valid)
        => /\ player'.audioChunks
                = Append(player.audioChunks, Decoded(last'.frame.audio_base64))
           /\ player'.currentAudioUrl # NoUrl
           /\ IsConcatenation(player'.currentAudioUrl[1], player'.audioChunks)
           /\ BagIn(player'.currentAudioUrl, objectUrls')
           /\ player'.totalSize = last'.frame.total_size]_vars

\* a chunk of one byte, then one of two bytes reported with total_size 3
C12_Witness ==
    /\ last.op = "onmessage"
    /\ player.audioChunks = << <<7>>, <<8, 9>> >>
    /\ player.currentAudioUrl = ObjectUrl(<<7, 8, 9>>)
    /\ Len(player.currentAudioUrl[1]) = 3
    /\ player.totalSize = 3

\* C13: when disconnect() has returned, this.ws is null and no socket is
\* current, isConnected is false, no keep-alive interval runs, and (the
\* player calling it as it unmounts) no object URL is left
C13_DisconnectCancels ==
    last.op = "disconnect" =>
        /\ ws = "null"
        /\ \A r \in Live : ~r.cur
        /\ ~isConnected
        /\ ~keepAliveInterval
        /\ last.by = "unmount" => objectUrls = EmptyBag

\* C14: handling a frame of type error emits `error` with the frame and
\* nothing else; the client is left as it was, and the player only sets
\* its error text and clears isLoading.  On a connection that is open, a
\* call of streamTextToSpeech after it sends its request.
C14_ErrorFrameOnlySurfaced ==
    /\ [][(Handled /\ last'.frame.json = "object" /\ last'.frame.type = "error")
            => /\ last'.emitted = <<Emit("error", "frame")>>
               /\ UNCHANGED <<serviceState, objectUrls>>
               /\ player.mounted =>
                     player' = [player EXCEPT
                                   !.error = IF last'.frame.message = "undefined"
                                             THEN UnknownError
                                             ELSE last'.frame.message,
                                   !.isLoading = FALSE]
               /\ ~player.mounted => UNCHANGED player]_vars
    /\ []((last.op = "onmessage" /\ last.frame.type = "error"
              /\ isConnected /\ ws = "live" /\ ReadyState = "OPEN")
            => StreamResult("hello", "v1").sent = <<TtsMessage("hello", "v1")>>)

\* an error frame reached a loading player on an open connection
C14_Witness ==
    /\ last.op = "onmessage"
    /\ last.frame.type = "error"
    /\ player.mounted
    /\ player.error = "Synthesis failed"
    /\ isConnected /\ ws = "live" /\ ReadyState = "OPEN"
    /\ keepAliveInterval

\* C15: a frame that is no JSON object with one of the types audio_chunk,
\* final, error is dropped: nothing is emitted, the client and the player
\* are left as they were
C15_UnknownFrameIgnored ==
    [][(Handled /\ (last'.frame.json # "object"
                      \/ last'.frame.type \notin {"audio_chunk", "final", "error"}))
        => /\ last'.emitted = <<>>
           /\ UNCHANGED <<serviceState, player, objectUrls>>]_vars

\* text that is no JSON reached a mounted player
C15_Witness ==
    /\ last.op = "onmessage"
    /\ last.frame.json = "invalid"
    /\ last.emitted = <<>>
    /\ player.mounted /\ player.isConnected

\* C17: when startStreaming has sent a request, the buffer is empty,
\* totalSize is 0, no audio URL is set or left registered, and the
\* reconnect counter is 0
C17_RequestStartsReset ==
    (last.op = "startStreaming" /\ last.sent # <<>>) =>
        /\ player.audioChunks = <<>>
        /\ player.totalSize = 0
        /\ player.currentAudioUrl = NoUrl
        /\ objectUrls = EmptyBag
        /\ reconnectAttempts = 0

\* a request sent after the connection was lost and made again
C17_Witness ==
    /\ last.op = "startStreaming"
    /\ last.sent = <<TtsMessage("hello", "v1")>>
    /\ player.isLoading
    /\ player.audioChunks = <<>>
    /\ reconnectAttempts = 0
    /\ created > 1

----------------------------------------------------------------------------
(* Properties of the auth provider, under SpecAuth *)

\* C18: whatever the server answered to the logout request (success, 401,
\* another failure, no answer), logout ends with user null, token null,
\* whisper_token removed, and raises nothing
C18_LogoutAlwaysClears ==
    auth.last.op = "logout" =>
        /\ auth.user = "null"
        /\ auth.token = "null"
        /\ auth.stored = "null"
        /\ auth.last.threw = "none"

\* the request of a signed-in user failed
C18_Witness ==
    /\ auth.last.op = "logout"
    /\ auth.last.resp = "failed"
    /\ auth.user = "null"
    /\ auth.token = "null"
    /\ auth.stored = "null"
    /\ auth.checkDue

\* C29: isAuthenticated (user not null) implies that the token state is
\* not null and that whisper_token is in local storage
C29_AuthenticatedHoldsToken ==
    auth.user # "null" => auth.token # "null" /\ auth.stored # "null"

----------------------------------------------------------------------------
(* Further properties of the player, under SpecPlayer *)

\* C21: startStreaming with an empty or blank text, or in a player whose
\* isConnected state is false, only sets the error: the chunk buffer, the
\* total size, the audio URL and isLoading are as they were, and the call
\* the button made sent nothing, left isLoading false and scheduled nothing
C21_InvalidRequestRejected ==
    /\ player.mounted =>
          \A text \in PlayerTexts, voice \in PlayerVoices :
              IsBlank(text) \/ ~player.isConnected =>
                  LET q == startStreaming(player, text, StreamResult(text, voice))
                  IN /\ q.audioChunks = player.audioChunks
                     /\ q.totalSize = player.totalSize
                     /\ q.currentAudioUrl = player.currentAudioUrl
                     /\ q.isLoading = player.isLoading
                     /\ q.error \in {NoText, PlayerNotConnected}
    /\ last.op = "startStreaming" /\ player.error \in {NoText, PlayerNotConnected} =>
          /\ last.sent = <<>>
          /\ last.scheduled = <<>>
          /\ last.threw = "none"
          /\ ~player.isLoading

\* the button started a request with a blank text on an open connection
C21_Witness ==
    /\ last.op = "startStreaming"
    /\ player.error = NoText
    /\ player.isConnected
    /\ isConnected
    /\ ~player.isLoading
    /\ last.sent = <<>>

----------------------------------------------------------------------------
(* Further properties of the streaming client *)

\* C22: a ping is sent only when isConnected is true and this.ws is open,
\* and the keep-alive interval runs only while the client is connected:
\* it is cleared once isConnected is false, after an unexpected close as
\* after disconnect()
C22_KeepAliveOnlyWhileConnected ==
    /\ last.op = "keepAlive" /\ last.sent # <<>> =>
          /\ last.sent = <<Ping>>
          /\ isConnected
          /\ ws = "live"
          /\ ReadyState = "OPEN"
    /\ ~isConnected => ~keepAliveInterval

\* C24: isConnected is true only if this.ws is not null and is an open
\* socket, whatever socket the last event came from (the states between
\* an error event and the close event of the same task are left out)
C24_ConnectedMeansOpen ==
    ~Dispatching /\ isConnected => ws = "live" /\ ReadyState = "OPEN"

\* C25: when the socket of a caller's connect() fails before it opened,
\* the promise is rejected by its error event and its close event
\* schedules no retry
C25_NoRetryAfterFailedHandshake ==
    /\ last.op = "onerror" /\ ~last.opened => last.settled = "rejected"
    /\ last.op = "onclose" /\ ~last.opened /\ last.by # "timer" =>
          /\ last.scheduled = <<>>
          /\ timers = 0

\* C26: a player that is loading when the connection has been
\* re-established by a retry stops loading at some point, unless the
\* connection is lost once more
C26_LoadingEnds ==
    (player.isLoading /\ last.op = "onopen" /\ last.by = "timer")
        ~> (~player.isLoading \/ ~isConnected)

\* 1000 * 2^k
RECURSIVE DelayAt(_)
DelayAt(k) == IF k = 0 THEN BaseDelay ELSE 2 * DelayAt(k - 1)

\* C27: under any interleaving of connect() calls, retry timers and
\* transport events, 0 <= reconnectAttempts <= maxReconnectAttempts and
\* reconnectDelay is 1000 * 2^k ms for some k in 0..5; the open of a socket
\* sets them to 0 and 1000
C27_BookkeepingBounded ==
    /\ reconnectAttempts \in 0..maxReconnectAttempts
    /\ reconnectDelay \in {DelayAt(k) : k \in 0..maxReconnectAttempts}
    /\ last.op = "onopen" => reconnectAttempts = 0 /\ reconnectDelay = BaseDelay

\* C30: a streamTextToSpeech called while isConnected is true raises
\* nothing and sends one synthesis message, with the text and the voice it
\* was given, on this.ws, which is open and has received it
C30_RequestSentOnCurrentSocket ==
    last.op = "streamTextToSpeech" /\ isConnected =>
        /\ last.threw = "none"
        /\ \E text \in Texts, voice \in Voices : last.sent = <<TtsMessage(text, voice)>>
        /\ ws = "live"
        /\ \E r \in Live : r.cur /\ r.st = "open" /\ r.asked

----------------------------------------------------------------------------
(* Properties of two players on one page, under SpecTwoPlayers *)

\* the sockets the connect effect of the second player made
SocketsOfSecond(bag) == {r \in BagToSet(bag) : r.by = "mount2"}

\* a step of the first player or for it: its request, an audio chunk
\* streamed for the request, its unmount
StepOfFirst ==
    \/ last'.op = "startStreaming"
    \/ last'.op = "onmessage" /\ last'.frame.type = "audio_chunk"
    \/ last'.op = "disconnect" /\ last'.by = "unmount"

\* C23: a request of one player, the audio chunks streamed for it and the
\* unmount of that player leave the chunk buffer, the total size and the
\* connection of the other mounted player as they were
C23_PlayersIsolated ==
    [][StepOfFirst /\ player2.mounted =>
          /\ player2'.audioChunks = player2.audioChunks
          /\ player2'.totalSize = player2.totalSize
          /\ player2'.isConnected = player2.isConnected
          /\ SocketsOfSecond(socks') = SocketsOfSecond(socks)]_vars

====
